---- MODULE Spec2Model ----
(***************************************************************************)
(* A model of the rolling logger of PSyton/rollinglog (rollinglog.go).     *)
(*                                                                         *)
(* The Logger writes to one active file; a Write that would exceed the     *)
(* size limit renames the active file to a backup named after the current  *)
(* millisecond and starts a background sweep (a goroutine) that deletes    *)
(* and compresses backups.  Write and Close hold the Logger's mutex; the   *)
(* sweep holds nothing and talks to them through two atomic flags          *)
(* (sweepings, shutdown) and a WaitGroup.                                  *)
(*                                                                         *)
(* A handler is cut into actions only where another goroutine can observe  *)
(* the difference: at the rename of a rotation (a sweep may list the       *)
(* directory before or after it), at runSweeping's load of the sweepings   *)
(* flag, and at Close's wg.Wait().  Everything a handler does between two  *)
(* such points touches only the active file and the fields the mutex       *)
(* protects, and is one action.                                            *)
(*                                                                         *)
(* Bytes are numbers: the payload of the k-th call of Write is k repeated, *)
(* bytes found in the log file before the Logger was made are 0, and the   *)
(* first byte of a compressed file is -1.  Time is in milliseconds, the    *)
(* resolution of the backup name.                                          *)
(***************************************************************************)
EXTENDS Integers, Sequences, FiniteSets, TLC

(* ------------------------------ bounds -------------------------------- *)

NumCallers == 2
WritesPerCaller == 2
MaxPayload == 3
MaxLimit == 2
MaxCount == 1
MaxDays == 1
MaxCloses == 1
MaxTicks == 1
MaxSweeps == 2
MaxFaults == 1
MaxRotations == 2
MaxDir == 3
MaxEntries == 3
MaxHandled == 3

(* 24*time.Hour, in milliseconds *)
DayMs == 86400000

(* a size limit no run of the model reaches *)
HighLimit == NumCallers * WritesPerCaller * MaxPayload + MaxPayload

Callers == 1..NumCallers
Slots == 1..MaxSweeps

VARIABLES
  (* configuration, fixed by New and its options *)
  sizeLimit, backupsCountLimit, backupsDaysLimit, compress,
  closeLimit,  \* the number of calls of Close the callers make in a run
  probe,       \* the arguments and results of the functions on names
  undeletable, \* the backups that os.Remove fails on whenever it is tried
  (* the directory of the log *)
  active,      \* the log file: [exists, data]
  backups,     \* the backup files: name [ts, gz] -> content
  (* the Logger *)
  file,        \* l.file # nil
  size,        \* l.size
  lock,        \* l.lock: 0 when free, else the caller holding it
  wg,          \* l.wg's counter
  shutdown,    \* l.shutdown
  sweepings,   \* l.sweepings
  (* the callers of Write and Close *)
  pc,          \* where each caller is inside its handler
  wp,          \* the payload of the caller's Write
  cnt,         \* the number of Writes each caller has issued
  closes,      \* the number of Closes issued
  (* the sweep goroutines *)
  sw,          \* slot -> [pc, rm, cz]
  (* the environment *)
  now,         \* time.Now(), in ms
  ticks,       \* the number of clock steps taken
  faults,      \* the number of I/O failures that have happened
  budget,      \* the number of I/O failures that may happen
  (* history *)
  ret,         \* what the last handler that returned has returned
  issued,      \* the bytes of the payloads Write has accepted
  written,     \* every byte that has landed in the log, in order
  created,     \* every backup a rotation has made: [ts, data]
  rotations,   \* the number of renames that succeeded
  collided,    \* two rotations have formatted the same timestamp
  handled      \* the errors the sweeps have passed to errHandler: [op, name, at]

cfgvars ==
  <<sizeLimit, backupsCountLimit, backupsDaysLimit, compress, closeLimit, probe, undeletable>>
fsvars == <<active, backups>>
logvars == <<file, size, lock, wg, shutdown, sweepings>>
callvars == <<pc, wp, cnt, closes>>
envvars == <<now, ticks, faults, budget>>
callhist == <<ret, issued, written, created, rotations, collided>>
histvars == <<callhist, handled>>
vars == <<cfgvars, fsvars, logvars, callvars, sw, envvars, histvars>>

(* ------------------------------ helpers ------------------------------- *)

NoFile == [exists |-> FALSE, data |-> <<>>]
NewFile == [exists |-> TRUE, data |-> <<>>]

Payload(len, id) == [i \in 1..len |-> id]

RECURSIVE SumOver(_, _)
SumOver(f, S) ==
  IF S = {} THEN 0
  ELSE LET x == CHOOSE y \in S : TRUE IN f[x] + SumOver(f, S \ {x})

(* the number of the next call of Write, counting from 1 *)
NextId == SumOver(cnt, Callers) + 1

Reverse(s) == [i \in 1..Len(s) |-> s[Len(s) + 1 - i]]

Put(f, k, v) == [x \in DOMAIN f \cup {k} |-> IF x = k THEN v ELSE f[x]]
Drop(f, k) == [x \in DOMAIN f \ {k} |-> f[x]]

(* the I/O operations that may fail in a step, while failures are left *)
FaultChoices(kinds) == IF faults < budget THEN kinds \cup {"none"} ELSE {"none"}

(* --------------------------- rollinglog.go ---------------------------- *)

(* a sizeExceeded for which 0 is a limit like any other *)
sizeExceeded_zeroIsLimit(aSize, aLimitSize) == aSize > aLimitSize

sizeExceeded(aSize, aLimitSize) ==
  IF aLimitSize = 0 THEN FALSE ELSE aSize > aLimitSize

(* a Write that lets a payload of one byte over the limit through *)
writeTooLong_offByOne(writeLen) == sizeExceeded(writeLen, sizeLimit + 1)

(* Write's first test: the payload alone is over the limit *)
writeTooLong(writeLen) == sizeExceeded(writeLen, sizeLimit)

(* openOrCreate's test: the file on disk cannot take the payload *)
existingTooBig(aNeedWrite, curSize) == sizeExceeded(aNeedWrite + curSize, sizeLimit)

(* a Write that tests the size of the file alone, without the payload *)
needRotate_withoutPayload(curSize, writeLen) == sizeExceeded(curSize, sizeLimit)

(* Write's second test: the open file cannot take the payload *)
needRotate(curSize, writeLen) == sizeExceeded(curSize + writeLen, sizeLimit)

(* rotate's backup name: the UTC time formatted to the millisecond *)
backupName(t) == [ts |-> t, gz |-> FALSE]

(* os.Rename of the log to the backup name: it replaces a file of that name *)
renameToBackup(bk, t, data) == Put(bk, backupName(t), data)

(* file.Write of p, of which n bytes land *)
fileWrite(data, p, n) == data \o SubSeq(p, 1, n)

(* the bytes a Write lands: all of them unless the write fails *)
Landed(p, f) == IF f = "write" THEN 0..(Len(p) - 1) ELSE {Len(p)}

(* ----------------------- Write, lines 254-286 ------------------------- *)

(* how far the part of Write before its file.Write has come:               *)
(*   "err"    it returns an error; l.file is nil and l.size is 0           *)
(*   "rotate" the log has been renamed; runSweeping and create are next    *)
(*   "ready"  l.file is open on the log and takes the payload              *)
Fail(e) == [st |-> "err", err |-> e, file |-> FALSE, size |-> 0, active |-> active]
Ready(sz, a) == [st |-> "ready", err |-> "", file |-> TRUE, size |-> sz, active |-> a]
Rotate(sz) == [st |-> "rotate", err |-> "", file |-> FALSE, size |-> sz, active |-> NoFile]

(* create: MkdirAll, then OpenFile with O_CREATE|O_TRUNC *)
create(f) == IF f = "create" THEN Fail("create") ELSE Ready(0, NewFile)

(* an openOrCreate that always creates: an existing log is truncated *)
openOrCreate_truncating(aNeedWrite, f) == create(f)

(* an openOrCreate that opens an existing log and tracks its size as 0 *)
openOrCreate_sizeZero(aNeedWrite, f) ==
  IF ~active.exists THEN create(f)
  ELSE IF f = "stat" THEN Fail("stat")
  ELSE IF existingTooBig(aNeedWrite, Len(active.data))
       THEN IF f = "rename" THEN Fail("rename") ELSE Rotate(size)
       ELSE IF f = "open" THEN Fail("open") ELSE Ready(0, active)

(* openOrCreate, up to the rename of rotate when it rotates *)
openOrCreate(aNeedWrite, f) ==
  IF ~active.exists THEN create(f)
  ELSE IF f = "stat" THEN Fail("stat")
  ELSE LET curSize == Len(active.data) IN
       IF existingTooBig(aNeedWrite, curSize)
       THEN IF f = "rename" THEN Fail("rename") ELSE Rotate(size)
       ELSE IF f = "open" THEN Fail("open") ELSE Ready(curSize, active)

(* lines 264-276: open the file if none is open, close and rename it if it *)
(* cannot take the payload                                                 *)
beforeWrite(writeLen, f) ==
  LET o == IF file THEN Ready(size, active) ELSE openOrCreate(writeLen, f) IN
  IF o.st = "ready" /\ needRotate(o.size, writeLen)
  THEN IF f = "close" THEN Fail("close")
       ELSE IF f = "rename" THEN Fail("rename")
       ELSE Rotate(0)
  ELSE o

(* the sweep goroutines that have been spawned and have not finished *)
Alive == {s \in Slots : sw[s].pc # "none"}

(* what a handler returns; for Close, with the number of sweeps it leaves *)
Returned(op, len, n, err) ==
  [op |-> op, len |-> len, n |-> n, err |-> err,
   alive |-> IF op = "Close" THEN Cardinality(Alive) ELSE 0]

(* a file.Write whose bytes are not added to l.size *)
writeAndReturn_sizeNotAdded(c, p, o, f) ==
  \E n \in Landed(p, f) :
    /\ active' = [exists |-> TRUE, data |-> fileWrite(o.active.data, p, n)]
    /\ file' = TRUE
    /\ size' = o.size
    /\ written' = written \o SubSeq(p, 1, n)
    /\ faults' = IF f = "write" THEN faults + 1 ELSE faults
    /\ ret' = Returned("Write", Len(p), n, IF f = "write" THEN "write" ELSE "")
    /\ lock' = 0
    /\ pc' = [pc EXCEPT ![c] = "idle"]
    /\ wp' = [wp EXCEPT ![c] = <<>>]

(* lines 282-285: file.Write, l.size += n, and the return *)
writeAndReturn(c, p, o, f) ==
  \E n \in Landed(p, f) :
    /\ active' = [exists |-> TRUE, data |-> fileWrite(o.active.data, p, n)]
    /\ file' = TRUE
    /\ size' = o.size + n
    /\ written' = written \o SubSeq(p, 1, n)
    /\ faults' = IF f = "write" THEN faults + 1 ELSE faults
    /\ ret' = Returned("Write", Len(p), n, IF f = "write" THEN "write" ELSE "")
    /\ lock' = 0
    /\ pc' = [pc EXCEPT ![c] = "idle"]
    /\ wp' = [wp EXCEPT ![c] = <<>>]

(* a return of Write with an error that keeps the handle and the size *)
failAndReturn_keepsHandle(c, p, e) ==
  /\ file' = file
  /\ size' = size
  /\ faults' = faults + 1
  /\ ret' = Returned("Write", Len(p), 0, e)
  /\ lock' = 0
  /\ pc' = [pc EXCEPT ![c] = "idle"]
  /\ wp' = [wp EXCEPT ![c] = <<>>]
  /\ UNCHANGED <<active, written>>

(* a return of Write with an error before anything was written *)
failAndReturn(c, p, e) ==
  /\ file' = FALSE
  /\ size' = 0
  /\ faults' = faults + 1
  /\ ret' = Returned("Write", Len(p), 0, e)
  /\ lock' = 0
  /\ pc' = [pc EXCEPT ![c] = "idle"]
  /\ wp' = [wp EXCEPT ![c] = <<>>]
  /\ UNCHANGED <<active, written>>

(* the instants a call of time.Now() may return: the one the last call   *)
(* returned, or a later one, by a millisecond or by more than a day        *)
Clock == IF ticks < MaxTicks THEN {now, now + 1, now + DayMs + 1} ELSE {now}

(* Write(p) with len(p) = writeLen, to its return or to the rename of its  *)
(* rotation                                                                *)
Write(c, writeLen) ==
  /\ pc[c] = "idle"
  /\ lock = 0
  /\ cnt[c] < WritesPerCaller
  /\ LET p == Payload(writeLen, NextId)
     IN /\ cnt' = [cnt EXCEPT ![c] = @ + 1]
        /\ IF writeTooLong(writeLen)
           THEN /\ ret' = Returned("Write", writeLen, 0, "toolong")
                /\ UNCHANGED <<fsvars, logvars, pc, wp, now, ticks, faults, issued, written,
                               created, rotations, collided>>
           ELSE \E f \in FaultChoices({"stat", "create", "open", "close", "rename", "write"}) :
                  LET o == beforeWrite(writeLen, f) IN
                  /\ issued' = issued + writeLen
                  /\ CASE o.st = "ready" ->
                            /\ writeAndReturn(c, p, o, f)
                            /\ UNCHANGED <<backups, now, ticks, created, rotations, collided>>
                       [] o.st = "err" ->
                            /\ failAndReturn(c, p, o.err)
                            /\ UNCHANGED <<backups, now, ticks, created, rotations, collided>>
                       [] o.st = "rotate" ->
                            \E t \in Clock :
                              /\ rotations < MaxRotations
                              /\ now' = t
                              /\ ticks' = IF t = now THEN ticks ELSE ticks + 1
                              /\ active' = NoFile
                              /\ backups' = renameToBackup(backups, t, active.data)
                              /\ created' = created \cup {[ts |-> t, data |-> active.data]}
                              /\ rotations' = rotations + 1
                              /\ collided' = (collided \/ \E r \in created : r.ts = t)
                              /\ file' = FALSE
                              /\ size' = o.size
                              /\ lock' = c
                              /\ pc' = [pc EXCEPT ![c] = "rotated"]
                              /\ wp' = [wp EXCEPT ![c] = p]
                              /\ UNCHANGED <<faults, ret, written>>
  /\ UNCHANGED <<cfgvars, wg, shutdown, sweepings, closes, sw, budget, handled>>

(* runSweeping, lines 70-80 *)
policyActive == backupsDaysLimit # 0 \/ backupsCountLimit # 0 \/ compress
mustSpawn == policyActive /\ sweepings = 0

IdleSlot == [pc |-> "none", rm |-> <<>>, cz |-> <<>>]
FreeSlots == {s \in Slots : sw[s].pc = "none"}

(* the rest of a Write that rotated: runSweeping, create, file.Write *)
WriteRotated(c) ==
  /\ pc[c] = "rotated"
  /\ IF mustSpawn
     THEN /\ FreeSlots # {}
          /\ LET s == CHOOSE x \in FreeSlots : \A y \in FreeSlots : x <= y IN
             sw' = [sw EXCEPT ![s] = [pc |-> "spawned", rm |-> <<>>, cz |-> <<>>]]
          /\ wg' = wg + 1
     ELSE UNCHANGED <<sw, wg>>
  /\ \E f \in FaultChoices({"create", "write"}) :
       LET o == create(f)
       IN IF o.st = "ready"
          THEN writeAndReturn(c, wp[c], o, f)
          ELSE failAndReturn(c, wp[c], o.err)
  /\ UNCHANGED <<cfgvars, backups, shutdown, sweepings, cnt, closes, now, ticks, budget,
                 issued, created, rotations, collided, handled>>

(* ------------------ the backups of the log, newest first -------------- *)

(* byTimestamp.Less: the newer timestamp first.  Of two names with the     *)
(* same timestamp the plain one stays in front of the compressed one: that *)
(* is the order ReadDir lists them in (by name), which sort.Sort keeps for *)
(* the short lists of this model (insertion sort below 12 entries).        *)
Less_oldestFirst(a, b) == a.ts < b.ts \/ (a.ts = b.ts /\ ~a.gz /\ b.gz)

Less(a, b) == a.ts > b.ts \/ (a.ts = b.ts /\ ~a.gz /\ b.gz)

RECURSIVE sortByTimestamp(_)
sortByTimestamp(S) ==
  IF S = {} THEN <<>>
  ELSE LET m == CHOOSE x \in S : \A y \in S \ {x} : Less(x, y)
       IN <<m>> \o sortByTimestamp(S \ {m})

(* filterBackups: the directory holds the log and its backups only; the    *)
(* names listed are the backups', with and without the compressed suffix   *)
filterBackups(bk) == sortByTimestamp(DOMAIN bk)

(* b.timestamp.Before(cutoff) *)
Before(ts, cutoff) == ts < cutoff

(* lines 101-109: drop from the old end while older than the cutoff *)
RECURSIVE dropOld(_, _)
dropOld(bs, cutoff) ==
  IF Len(bs) > 0 /\ Before(bs[Len(bs)].ts, cutoff)
  THEN dropOld(SubSeq(bs, 1, Len(bs) - 1), cutoff)
  ELSE bs

(* a count step that stops one backup above the limit *)
RECURSIVE dropExcess_keepsOneMore(_, _)
dropExcess_keepsOneMore(bs, limit) ==
  IF limit + 1 < Len(bs) THEN dropExcess_keepsOneMore(SubSeq(bs, 1, Len(bs) - 1), limit) ELSE bs

(* lines 114-117: drop from the old end while over the count limit *)
RECURSIVE dropExcess(_, _)
dropExcess(bs, limit) ==
  IF limit < Len(bs) THEN dropExcess(SubSeq(bs, 1, Len(bs) - 1), limit) ELSE bs

(* a test on the suffix that takes every backup *)
toCompress_any(b) == TRUE

(* the test of line 123: the name does not end in the compressed suffix *)
toCompress(b) == ~b.gz

(* collectFilesForSweep on the directory bk at time t; forRemove is in the *)
(* order the two loops append: oldest first                                *)
collectFilesForSweep(bk, t) ==
  LET all == filterBackups(bk)
      aged == IF backupsDaysLimit > 0
              THEN dropOld(all, t - DayMs * backupsDaysLimit)
              ELSE all
      kept == IF backupsCountLimit > 0
              THEN dropExcess(aged, backupsCountLimit)
              ELSE aged
  IN [forRemove |-> Reverse(SubSeq(all, Len(kept) + 1, Len(all))),
      forCompress |-> IF compress THEN SelectSeq(kept, toCompress) ELSE <<>>]

(* ---------------------- the sweep, lines 136-176 ---------------------- *)

(* the content of the compressed form of a file, and back *)
Gzip(data) == <<-1>> \o data
Gunzip(data) == Tail(data)

(* Compress of the backup f, when it succeeds: f.gz is created or          *)
(* truncated and takes the compressed content, f is removed                *)
(* a compression that leaves its source in the directory *)
compressed_keepsSource(bk, f) == Put(bk, [ts |-> f.ts, gz |-> TRUE], Gzip(bk[f]))

compressed(bk, f) == Put(Drop(bk, f), [ts |-> f.ts, gz |-> TRUE], Gzip(bk[f]))

(* ---------- the compressor, lines 23-80 of its file, in steps -------- *)

(* newCompressor: the destination is the source plus the compressed suffix *)
destFile(f) == [ts |-> f.ts, gz |-> TRUE]

(* fileForRemove when it is empty *)
NoName == [ts |-> 0 - 1, gz |-> FALSE]

(* what can fail in one call of Compress *)
CompressFaults == {"open", "create", "copy", "gzclose", "srcclose", "dstclose", "remove"}

(* an os.Open of the source that succeeds whether the source exists or not *)
openSource_always(fs, f, F) == TRUE

(* os.Open of the source *)
openSource(fs, f, F) == f \in DOMAIN fs /\ "open" \notin F

contentOf(fs, f) == IF f \in DOMAIN fs THEN fs[f] ELSE <<>>

(* the destination when the stream was not finished: the gzip stream       *)
(* without its end                                                         *)
Unfinished(data) == SubSeq(Gzip(data), 1, Len(data))

(* finish: close the handles that are open, remove fileForRemove; each     *)
(* failure here replaces c.errors (multierror.Append without c.errors);    *)
(* closed are the handles Close was called on                              *)
finish(fs, f, src, dst, rm, errs, F) ==
  LET e1 == IF src /\ "srcclose" \in F THEN <<"srcclose">> ELSE errs
      e2 == IF dst /\ "dstclose" \in F THEN <<"dstclose">> ELSE e1
      fails == rm # NoName /\ ("remove" \in F \/ rm \notin DOMAIN fs)
  IN [fs |-> IF rm # NoName /\ ~fails THEN Drop(fs, rm) ELSE fs,
      errors |-> IF fails THEN <<"remove">> ELSE e2,
      closed |-> (IF src THEN {"src"} ELSE {}) \cup (IF dst THEN {"dst"} ELSE {})]

(* Compress of the file f of the directory fs, with the failures F *)
Compress(fs, f, F) ==
  LET dest == destFile(f)
      data == contentOf(fs, f)
  IN IF ~openSource(fs, f, F)
     THEN finish(fs, f, FALSE, FALSE, NoName, <<"open">>, F)
     ELSE IF "create" \in F
     THEN finish(fs, f, TRUE, FALSE, NoName, <<"create">>, F)
     ELSE IF "copy" \in F
     THEN finish(Put(fs, dest, Unfinished(data)), f, TRUE, TRUE, dest, <<"copy">>, F)
     ELSE IF "gzclose" \in F
     THEN finish(Put(fs, dest, Unfinished(data)), f, TRUE, TRUE, dest, <<"gzclose">>, F)
     ELSE finish(Put(fs, dest, Gzip(data)), f, TRUE, TRUE, f, <<>>, F)

(* the failure of the removal of the source f that ends a Compress whose   *)
(* steps before succeeded, when f is a file that cannot be removed         *)
stuck(f, F) ==
  IF f \in undeletable /\ F \cap {"open", "create", "copy", "gzclose"} = {}
  THEN {"remove"} ELSE {}

(* the error of an operation of the sweep on a file, and the number of     *)
(* rotations made when it happened                                         *)
Failed(op, name) == [op |-> op, name |-> name, at |-> rotations]

(* errHandler(e): the error is kept, the first MaxHandled of them *)
Report(h, e) == IF Len(h) < MaxHandled THEN Append(h, e) ELSE h

(* the failures that may happen in one call of Compress, while failures   *)
(* are left                                                                *)
FaultSets == {F \in SUBSET CompressFaults : faults + Cardinality(F) <= budget}

(* ------------------------- the sweep goroutine ------------------------ *)

(* the goroutine starts: sweepings is set *)
SweepStart(s) ==
  /\ sw[s].pc = "spawned"
  /\ sweepings' = 1
  /\ sw' = [sw EXCEPT ![s].pc = "loop"]
  /\ UNCHANGED <<cfgvars, fsvars, file, size, lock, wg, shutdown, callvars, envvars, histvars>>

(* a head of the loop that tries again when the directory cannot be read  *)
SweepPass_retriesOnError(s) ==
  /\ sw[s].pc = "loop"
  /\ IF shutdown = 1
     THEN /\ sw' = [sw EXCEPT ![s] = [pc |-> "exit", rm |-> <<>>, cz |-> <<>>]]
          /\ UNCHANGED <<faults, now, ticks, handled>>
     ELSE \E f \in FaultChoices({"readdir"}), t \in Clock :
            LET r == IF f = "readdir"
                     THEN [forRemove |-> <<>>, forCompress |-> <<>>]
                     ELSE collectFilesForSweep(backups, t)
                next == IF r.forRemove # <<>> THEN "remove"
                        ELSE IF r.forCompress # <<>> THEN "compress"
                        ELSE IF f = "readdir" THEN "loop"
                        ELSE "exit"
            IN /\ sw' = [sw EXCEPT ![s] = [pc |-> next, rm |-> r.forRemove,
                                           cz |-> r.forCompress]]
               /\ faults' = IF f = "readdir" THEN faults + 1 ELSE faults
               /\ handled' = IF f = "readdir"
                             THEN Report(handled, Failed("readdir", NoName))
                             ELSE handled
               /\ now' = IF backupsDaysLimit > 0 /\ f # "readdir" THEN t ELSE now
               /\ ticks' = IF now' = now THEN ticks ELSE ticks + 1
  /\ UNCHANGED <<cfgvars, fsvars, logvars, callvars, budget, callhist>>

(* the head of the loop: needShutdown, collectFilesForSweep and the test   *)
(* for nothing to do                                                       *)
SweepPass(s) ==
  /\ sw[s].pc = "loop"
  /\ IF shutdown = 1
     THEN /\ sw' = [sw EXCEPT ![s] = [pc |-> "exit", rm |-> <<>>, cz |-> <<>>]]
          /\ UNCHANGED <<faults, now, ticks, handled>>
     ELSE \E f \in FaultChoices({"readdir"}), t \in Clock :
            LET r == IF f = "readdir"
                     THEN [forRemove |-> <<>>, forCompress |-> <<>>]
                     ELSE collectFilesForSweep(backups, t)
                next == IF r.forRemove # <<>> THEN "remove"
                        ELSE IF r.forCompress # <<>> THEN "compress"
                        ELSE "exit"
            IN /\ sw' = [sw EXCEPT ![s] = [pc |-> next, rm |-> r.forRemove,
                                           cz |-> r.forCompress]]
               /\ faults' = IF f = "readdir" THEN faults + 1 ELSE faults
               /\ handled' = IF f = "readdir"
                             THEN Report(handled, Failed("readdir", NoName))
                             ELSE handled
               /\ now' = IF backupsDaysLimit > 0 /\ f # "readdir" THEN t ELSE now
               /\ ticks' = IF now' = now THEN ticks ELSE ticks + 1
  /\ UNCHANGED <<cfgvars, fsvars, logvars, callvars, budget, callhist>>

(* after the last removal: the compress loop, or the head of the loop *)
afterRemovals(rm, cz) ==
  IF rm # <<>> THEN "remove" ELSE IF cz # <<>> THEN "compress" ELSE "loop"

(* a removal loop that a failure ends, and the sweep with it *)
SweepRemove_stopsAtFailure(s) ==
  /\ sw[s].pc = "remove"
  /\ LET r == Head(sw[s].rm)
         rest == Tail(sw[s].rm)
     IN \E f \in FaultChoices({"remove"}) :
          LET removed == r \in DOMAIN backups \ undeletable /\ f # "remove" IN
          /\ backups' = IF removed THEN Drop(backups, r) ELSE backups
          /\ faults' = IF f = "remove" THEN faults + 1 ELSE faults
          /\ handled' = IF removed THEN handled
                        ELSE Report(handled, Failed("remove", r))
          /\ sw' = IF removed
                   THEN [sw EXCEPT ![s].rm = rest, ![s].pc = afterRemovals(rest, sw[s].cz)]
                   ELSE [sw EXCEPT ![s] = [pc |-> "exit", rm |-> <<>>, cz |-> <<>>]]
  /\ UNCHANGED <<cfgvars, active, logvars, callvars, now, ticks, budget, callhist>>

(* os.Remove of the next file of forRemove; a failure goes to errHandler   *)
(* and the loop goes on                                                    *)
SweepRemove(s) ==
  /\ sw[s].pc = "remove"
  /\ LET r == Head(sw[s].rm)
         rest == Tail(sw[s].rm)
     IN /\ \E f \in FaultChoices({"remove"}) :
             LET removed == r \in DOMAIN backups \ undeletable /\ f # "remove" IN
             /\ backups' = IF removed THEN Drop(backups, r) ELSE backups
             /\ faults' = IF f = "remove" THEN faults + 1 ELSE faults
             /\ handled' = IF removed THEN handled
                           ELSE Report(handled, Failed("remove", r))
        /\ sw' = [sw EXCEPT ![s].rm = rest, ![s].pc = afterRemovals(rest, sw[s].cz)]
  /\ UNCHANGED <<cfgvars, active, logvars, callvars, now, ticks, budget, callhist>>

(* one turn of the compress loop: needShutdown, then Compress of the next  *)
(* file; an error goes to errHandler and ends the sweep                    *)
SweepCompress(s) ==
  /\ sw[s].pc = "compress"
  /\ LET f == Head(sw[s].cz)
         rest == Tail(sw[s].cz)
     IN IF shutdown = 1
        THEN /\ sw' = [sw EXCEPT ![s].cz = <<>>, ![s].pc = "loop"]
             /\ UNCHANGED <<backups, faults, handled>>
        ELSE \E F \in FaultSets :
               LET r == Compress(backups, f, F \cup stuck(f, F)) IN
               IF r.errors # <<>>
               THEN /\ sw' = [sw EXCEPT ![s].cz = <<>>, ![s].pc = "exit"]
                    /\ faults' = faults + Cardinality(F)
                    /\ backups' = r.fs
                    /\ handled' = Report(handled, Failed("compress", f))
               ELSE /\ backups' = compressed(backups, f)
                    /\ sw' = [sw EXCEPT ![s].cz = rest,
                                        ![s].pc = IF rest # <<>> THEN "compress" ELSE "loop"]
                    /\ UNCHANGED <<faults, handled>>
  /\ UNCHANGED <<cfgvars, active, logvars, callvars, now, ticks, budget, callhist>>

(* the steps a sweep at slot value w has left at most once shutdown is    *)
(* set: the removals of the pass it is in, the tests of needShutdown and   *)
(* the deferred function                                                   *)
drainSteps(w) ==
  IF w.pc = "none" THEN 0
  ELSE IF w.pc = "exit" THEN 1
  ELSE IF w.pc = "loop" THEN 2
  ELSE IF w.pc = "remove" THEN 3 + Len(w.rm)
  ELSE 3

(* the deferred function: sweepings is cleared, wg.Done() *)
SweepExit(s) ==
  /\ sw[s].pc = "exit"
  /\ sweepings' = 0
  /\ wg' = wg - 1
  /\ sw' = [sw EXCEPT ![s] = IdleSlot]
  /\ UNCHANGED <<cfgvars, fsvars, file, size, lock, shutdown, callvars, envvars, histvars>>

(* ------------------------ Close, lines 289-300 ------------------------ *)

(* a close that syncs and closes the handle without testing it for nil *)
closeAndReturn_withoutNilTest(c) ==
  /\ file' = FALSE
  /\ size' = 0
  /\ faults' = faults
  /\ ret' = Returned("Close", 0, 0, IF file THEN "" ELSE "close")
  /\ lock' = 0
  /\ pc' = [pc EXCEPT ![c] = "idle"]

(* close, lines 238-251: the handle is dropped whatever Sync and Close say *)
closeAndReturn(c) ==
  \E f \in FaultChoices({"close"}) :
    /\ file' = FALSE
    /\ size' = 0
    /\ faults' = IF file /\ f = "close" THEN faults + 1 ELSE faults
    /\ ret' = Returned("Close", 0, 0, IF file /\ f = "close" THEN "close" ELSE "")
    /\ lock' = 0
    /\ pc' = [pc EXCEPT ![c] = "idle"]

(* Close, to its return or to its wg.Wait() *)
Close(c) ==
  /\ pc[c] = "idle"
  /\ lock = 0
  /\ closes < closeLimit
  /\ closes' = closes + 1
  /\ IF sweepings = 1
     THEN /\ shutdown' = 1
          /\ lock' = c
          /\ pc' = [pc EXCEPT ![c] = "wait"]
          /\ UNCHANGED <<file, size, faults, ret>>
     ELSE /\ closeAndReturn(c)
          /\ UNCHANGED shutdown
  /\ UNCHANGED <<cfgvars, fsvars, wg, sweepings, wp, cnt, sw, now, ticks, budget,
                 issued, written, created, rotations, collided, handled>>

(* a Close that leaves shutdown set when wg.Wait() has returned *)
CloseWaited_shutdownLeftSet(c) ==
  /\ pc[c] = "wait"
  /\ wg = 0
  /\ shutdown' = shutdown
  /\ closeAndReturn(c)
  /\ UNCHANGED <<cfgvars, fsvars, wg, sweepings, wp, cnt, closes, sw, now, ticks, budget,
                 issued, written, created, rotations, collided, handled>>

(* wg.Wait() returns: shutdown is cleared and the file closed *)
CloseWaited(c) ==
  /\ pc[c] = "wait"
  /\ wg = 0
  /\ shutdown' = 0
  /\ closeAndReturn(c)
  /\ UNCHANGED <<cfgvars, fsvars, wg, sweepings, wp, cnt, closes, sw, now, ticks, budget,
                 issued, written, created, rotations, collided, handled>>

(* ------------------------------ the start ----------------------------- *)

(* the log file found by a new Logger: none, or one left by an earlier run *)
InitialLogs == {NoFile} \cup {[exists |-> TRUE, data |-> Payload(n, 0)] : n \in {1, MaxPayload}}

(* a new Logger that has done nothing *)
FreshLogger ==
  /\ file = FALSE
  /\ size = 0
  /\ lock = 0
  /\ wg = 0
  /\ shutdown = 0
  /\ sweepings = 0
  /\ pc = [c \in Callers |-> "idle"]
  /\ wp = [c \in Callers |-> <<>>]
  /\ cnt = [c \in Callers |-> 0]
  /\ closes = 0
  /\ sw = [s \in Slots |-> IdleSlot]
  /\ ticks = 0
  /\ faults = 0
  /\ ret = [op |-> "none", len |-> 0, n |-> 0, err |-> "", alive |-> 0]
  /\ issued = 0
  /\ written = active.data
  /\ created = {}
  /\ rotations = 0
  /\ collided = FALSE
  /\ handled = <<>>

(* no function on names is under test *)
Fresh ==
  /\ probe = <<>>
  /\ FreshLogger

(* the configurations: every size limit with every count limit, with and  *)
(* without compression, or with an age limit alone, all with I/O that      *)
(* never fails; and every policy but the age limit on with I/O that fails  *)
(* up to MaxFaults times                                                   *)
Init ==
  /\ active \in InitialLogs
  /\ \/ /\ budget = 0
        /\ sizeLimit \in {0, MaxLimit, HighLimit}
        /\ \/ /\ backupsCountLimit \in 0..MaxCount
              /\ backupsDaysLimit = 0
              /\ compress \in BOOLEAN
           \/ /\ backupsCountLimit = 0
              /\ backupsDaysLimit \in 1..MaxDays
              /\ compress = FALSE
     \/ /\ budget = MaxFaults
        /\ budget > 0
        /\ sizeLimit = MaxLimit
        /\ backupsCountLimit = MaxCount
        /\ backupsDaysLimit = 0
        /\ compress = TRUE
  /\ closeLimit = MaxCloses
  /\ undeletable = {}
  /\ Fresh
  /\ backups = <<>>
  /\ now = 0

Next ==
  \/ \E c \in Callers, n \in 1..MaxPayload : Write(c, n)
  \/ \E c \in Callers : WriteRotated(c)
  \/ \E c \in Callers : Close(c)
  \/ \E c \in Callers : CloseWaited(c)
  \/ \E s \in Slots : SweepStart(s)
  \/ \E s \in Slots : SweepPass(s)
  \/ \E s \in Slots : SweepRemove(s)
  \/ \E s \in Slots : SweepCompress(s)
  \/ \E s \in Slots : SweepExit(s)

Spec == Init /\ [][Next]_vars

(* ------------------------ Close after Close -------------------------- *)

(* a Logger with every policy on and I/O that never fails, whose callers   *)
(* call Close once more than in the other runs                             *)
InitClose ==
  /\ active \in InitialLogs
  /\ sizeLimit = MaxLimit
  /\ backupsCountLimit = MaxCount
  /\ backupsDaysLimit = 0
  /\ compress = TRUE
  /\ budget = 0
  /\ closeLimit = MaxCloses + 1
  /\ undeletable = {}
  /\ Fresh
  /\ backups = <<>>
  /\ now = 0

SpecClose == InitClose /\ [][Next]_vars

(* ---------------- limits of any sign, lines 36-37 -------------------- *)

(* backupsCountLimit and backupsDaysLimit are ints that WithMaxBackups and *)
(* WithMaxAge store as they come: a Logger with limits below zero, zero    *)
(* or above, with I/O that never fails                                      *)
InitSigned ==
  /\ active \in InitialLogs
  /\ sizeLimit = MaxLimit
  /\ backupsCountLimit \in (0 - 1)..MaxCount
  /\ backupsDaysLimit \in {0 - 1, 0}
  /\ compress \in BOOLEAN
  /\ budget = 0
  /\ closeLimit = MaxCloses
  /\ undeletable = {}
  /\ Fresh
  /\ backups = <<>>
  /\ now = 0

(* one caller writes and closes, and the sweeps run *)
NextSigned ==
  \/ \E n \in 1..MaxPayload : Write(1, n)
  \/ WriteRotated(1)
  \/ Close(1)
  \/ CloseWaited(1)
  \/ \E s \in Slots : SweepStart(s)
  \/ \E s \in Slots : SweepPass(s)
  \/ \E s \in Slots : SweepRemove(s)
  \/ \E s \in Slots : SweepCompress(s)
  \/ \E s \in Slots : SweepExit(s)

SpecSigned == InitSigned /\ [][NextSigned]_vars

(* ------------- the sweep over a directory of old backups -------------- *)

(* the timestamps of the backups earlier runs have left: around the        *)
(* cutoffs of the age limits, and within the last day                      *)
DirStamps == {0, 1, 2, DayMs}

DirNames == [ts : DirStamps, gz : BOOLEAN]

(* the directories a new Logger may find: up to MaxDir backups, the plain  *)
(* ones of MaxLimit bytes, the compressed ones of one byte compressed      *)
Directories ==
  {[name \in D |-> IF name.gz THEN Gzip(Payload(1, 0)) ELSE Payload(MaxLimit, 0)] :
     D \in {X \in SUBSET DirNames : Cardinality(X) <= MaxDir}}

(* a new Logger on a log that is full, in a directory of old backups, with *)
(* any count limit, age limit and compression                              *)
InitCollect ==
  /\ sizeLimit = MaxLimit
  /\ backupsCountLimit \in 0..(MaxDir + 1)
  /\ backupsDaysLimit \in 0..MaxDays
  /\ compress \in BOOLEAN
  /\ budget = 0
  /\ active = [exists |-> TRUE, data |-> Payload(MaxLimit, 0)]
  /\ closeLimit = MaxCloses
  /\ undeletable = {}
  /\ Fresh
  /\ backups \in Directories
  /\ now = DayMs * MaxDays + 1

(* one caller writes until the log is rotated, and the sweeps run *)
NextCollect ==
  \/ \E n \in 1..MaxPayload : rotations = 0 /\ Write(1, n)
  \/ WriteRotated(1)
  \/ \E s \in Slots : SweepStart(s)
  \/ \E s \in Slots : SweepPass(s)
  \/ \E s \in Slots : SweepRemove(s)
  \/ \E s \in Slots : SweepCompress(s)
  \/ \E s \in Slots : SweepExit(s)

SpecCollect == InitCollect /\ [][NextCollect]_vars

(* ------------- the sweep when file operations fail -------------------- *)

(* a new Logger on a log that is full, in a directory of old backups, one  *)
(* of which may be a file that cannot be removed, with I/O that fails up   *)
(* to MaxFaults times                                                      *)
InitFaulty ==
  /\ sizeLimit = MaxLimit
  /\ backupsCountLimit \in 0..(MaxDir + 1)
  /\ backupsDaysLimit = 0
  /\ compress \in BOOLEAN
  /\ budget = MaxFaults
  /\ active = [exists |-> TRUE, data |-> Payload(MaxLimit, 0)]
  /\ closeLimit = MaxCloses
  /\ Fresh
  /\ backups \in Directories
  /\ undeletable \in {{}} \cup {{f} : f \in DOMAIN backups}
  /\ now = DayMs * MaxDays + 1

SpecFaulty == InitFaulty /\ [][NextCollect]_vars

(* -------------- the sweep, scheduled until it returns ----------------- *)

(* a new Logger that keeps MaxCount backups or one more, on a log that is  *)
(* full, in a directory of MaxCount + 1 old backups, one of them a file    *)
(* that cannot be removed, with I/O that does not fail otherwise           *)
InitStuck ==
  /\ sizeLimit = MaxLimit
  /\ backupsCountLimit \in {MaxCount, MaxCount + 1}
  /\ backupsDaysLimit = 0
  /\ compress \in BOOLEAN
  /\ budget = 0
  /\ active = [exists |-> TRUE, data |-> Payload(MaxLimit, 0)]
  /\ closeLimit = MaxCloses
  /\ Fresh
  /\ backups \in {d \in Directories : Cardinality(DOMAIN d) = MaxCount + 1}
  /\ undeletable \in {{f} : f \in DOMAIN backups}
  /\ now = DayMs * MaxDays + 1

(* a step of the sweep goroutine of slot s *)
SweepStep(s) ==
  SweepStart(s) \/ SweepPass(s) \/ SweepRemove(s) \/ SweepCompress(s) \/ SweepExit(s)

(* the goroutine of a sweep is scheduled and every file operation it calls *)
(* returns: a sweep that can take a step takes one                         *)
SpecStuck == InitStuck /\ [][NextCollect]_vars /\ \A s \in Slots : WF_vars(SweepStep(s))

(* ------------------- calls of Compress alone -------------------------- *)

(* a directory of old backups, and a budget of failures *)
InitCompress ==
  /\ sizeLimit = MaxLimit
  /\ backupsCountLimit = 0
  /\ backupsDaysLimit = 0
  /\ compress = TRUE
  /\ budget = MaxFaults + 1
  /\ active = NoFile
  /\ closeLimit = MaxCloses
  /\ undeletable = {}
  /\ Fresh
  /\ backups \in Directories
  /\ now = 0

(* one call of Compress on a plain name, in the directory or not *)
CompressCall(f, F) ==
  /\ ~f.gz
  /\ faults + Cardinality(F) <= budget
  /\ LET r == Compress(backups, f, F)
     IN /\ backups' = r.fs
        /\ ret' = [op |-> "Compress", len |-> Len(contentOf(backups, f)),
                   n |-> Len(r.errors),
                   err |-> IF r.errors = <<>> THEN "" ELSE r.errors[Len(r.errors)],
                   alive |-> 0]
  /\ faults' = faults + Cardinality(F)
  /\ UNCHANGED <<cfgvars, active, logvars, callvars, sw, now, ticks, budget,
                 issued, written, created, rotations, collided, handled>>

NextCompress == \E f \in DirNames, F \in SUBSET CompressFaults : CompressCall(f, F)

SpecCompress == InitCompress /\ [][NextCompress]_vars

(* ----------------------- the names of the backups -------------------- *)

(* A name is a sequence of characters, a character a string of length 1.   *)
(* An instant is [day, ms]: the days since 1970-01-01 UTC and the          *)
(* milliseconds of the day.                                                *)

Digits == <<"0", "1", "2", "3", "4", "5", "6", "7", "8", "9">>

IsDigit(ch) == \E i \in 1..10 : Digits[i] = ch
DigitVal(ch) == (CHOOSE i \in 1..10 : Digits[i] = ch) - 1

RECURSIVE Pow10(_)
Pow10(k) == IF k = 0 THEN 1 ELSE 10 * Pow10(k - 1)

(* n in w digits, with zeros in front *)
Pad(n, w) == [i \in 1..w |-> Digits[((n \div Pow10(w - i)) % 10) + 1]]

AllDigits(q) == \A i \in 1..Len(q) : IsDigit(q[i])

RECURSIVE Atoi(_)
Atoi(q) == IF q = <<>> THEN 0 ELSE 10 * Atoi(SubSeq(q, 1, Len(q) - 1)) + DigitVal(q[Len(q)])

(* the format of the timestamp of a backup name, and the suffix of a       *)
(* compressed backup                                                       *)
backupTimeFormat ==
  <<"2", "0", "0", "6", "0", "1", "0", "2", "1", "5", "0", "4", "0", "5", ".", "0", "0", "0">>
compressSuffix == <<".", "g", "z">>

IsLeap(y) == y % 4 = 0 /\ (y % 100 # 0 \/ y % 400 = 0)

daysIn(m, y) ==
  IF m = 2 THEN (IF IsLeap(y) THEN 29 ELSE 28)
  ELSE IF m \in {4, 6, 9, 11} THEN 30 ELSE 31

(* the days from 1970-01-01 to the day d of the month m of the year y *)
DaysFromCivil(y, m, d) ==
  LET yy == IF m <= 2 THEN y - 1 ELSE y
      era == yy \div 400
      yoe == yy - era * 400
      doy == (153 * (IF m > 2 THEN m - 3 ELSE m + 9) + 2) \div 5 + d - 1
      doe == yoe * 365 + yoe \div 4 - yoe \div 100 + doy
  IN era * 146097 + doe - 719468

(* the year, month and day of the day z days after 1970-01-01 *)
CivilFromDays(z) ==
  LET zz == z + 719468
      era == zz \div 146097
      doe == zz - era * 146097
      yoe == (doe - doe \div 1460 + doe \div 36524 - doe \div 146096) \div 365
      doy == doe - (365 * yoe + yoe \div 4 - yoe \div 100)
      mp == (5 * doy + 2) \div 153
      m == IF mp < 10 THEN mp + 3 ELSE mp - 9
  IN [y |-> yoe + era * 400 + (IF m <= 2 THEN 1 ELSE 0),
      m |-> m,
      d |-> doy - (153 * mp + 2) \div 5 + 1]

(* time.Date(y, m, d, h, mi, sec, ms, time.UTC) *)
Date(y, m, d, h, mi, sec, ms) ==
  [day |-> DaysFromCivil(y, m, d), ms |-> ((h * 60 + mi) * 60 + sec) * 1000 + ms]

(* the instant t seen on a clock that is off ms milliseconds ahead of UTC *)
Shift(t, off) ==
  LET x == t.ms + off
  IN [day |-> t.day + (x \div DayMs), ms |-> x % DayMs]

(* t.Format(backupTimeFormat) for t in UTC: the year in four digits (more  *)
(* from the year 10000 on), then month, day, hour, minute, second, a dot   *)
(* and the milliseconds                                                    *)
Format(t) ==
  LET c == CivilFromDays(t.day)
      secs == t.ms \div 1000
  IN (IF c.y < 10000 THEN Pad(c.y, 4) ELSE Pad(c.y, 5))
     \o Pad(c.m, 2) \o Pad(c.d, 2)
     \o Pad(secs \div 3600, 2) \o Pad((secs \div 60) % 60, 2) \o Pad(secs % 60, 2)
     \o <<".">> \o Pad(t.ms % 1000, 3)

NoTime == [day |-> 0, ms |-> 0]

(* time.Parse(backupTimeFormat, q): the fields are digits, in range, and   *)
(* the fraction starts with a period or a comma; the result is in UTC      *)
Parse(q) ==
  LET y == Atoi(SubSeq(q, 1, 4))
      m == Atoi(SubSeq(q, 5, 6))
      d == Atoi(SubSeq(q, 7, 8))
      h == Atoi(SubSeq(q, 9, 10))
      mi == Atoi(SubSeq(q, 11, 12))
      sec == Atoi(SubSeq(q, 13, 14))
      ms == Atoi(SubSeq(q, 16, 18))
  IN IF /\ Len(q) = Len(backupTimeFormat)
        /\ AllDigits(SubSeq(q, 1, 14)) /\ q[15] \in {".", ","} /\ AllDigits(SubSeq(q, 16, 18))
        /\ m \in 1..12 /\ d \in 1..daysIn(m, y)
        /\ h < 24 /\ mi < 60 /\ sec < 60
     THEN [ok |-> TRUE, t |-> Date(y, m, d, h, mi, sec, ms)]
     ELSE [ok |-> FALSE, t |-> NoTime]

HasPrefix(q, pre) == Len(q) >= Len(pre) /\ SubSeq(q, 1, Len(pre)) = pre
HasSuffix(q, suf) == Len(q) >= Len(suf) /\ SubSeq(q, Len(q) - Len(suf) + 1, Len(q)) = suf

(* filepath.Ext: from the last dot of the name on, empty without a dot *)
Ext(fname) ==
  LET dots == {i \in 1..Len(fname) : fname[i] = "."}
  IN IF dots = {} THEN <<>>
     ELSE SubSeq(fname, CHOOSE i \in dots : \A j \in dots : j <= i, Len(fname))

(* splitFilename of a name without directories *)
splitFilename(fname) ==
  LET suffix == Ext(fname)
  IN [prefix |-> SubSeq(fname, 1, Len(fname) - Len(suffix)) \o <<".">>, suffix |-> suffix]

NoParse == [ok |-> FALSE, t |-> NoTime]

(* a timeFormFilename that slices without comparing the width *)
timeFormFilename_anyWidth(aFilename, aPrefix, aSuffix) ==
  IF ~HasPrefix(aFilename, aPrefix) THEN NoParse
  ELSE IF ~HasSuffix(aFilename, aSuffix) THEN NoParse
  ELSE IF Len(aFilename) - Len(aSuffix) - Len(aPrefix) >= Len(backupTimeFormat)
  THEN Parse(SubSeq(aFilename, Len(aPrefix) + 1, Len(aPrefix) + Len(backupTimeFormat)))
  ELSE NoParse

(* a timeFormFilename that takes every name with the prefix and the       *)
(* suffix of the log for a backup                                          *)
timeFormFilename_prefixAndSuffixOnly(aFilename, aPrefix, aSuffix) ==
  IF ~HasPrefix(aFilename, aPrefix) THEN NoParse
  ELSE IF ~HasSuffix(aFilename, aSuffix) THEN NoParse
  ELSE [ok |-> TRUE, t |-> NoTime]

timeFormFilename(aFilename, aPrefix, aSuffix) ==
  IF ~HasPrefix(aFilename, aPrefix) THEN NoParse
  ELSE IF ~HasSuffix(aFilename, aSuffix) THEN NoParse
  ELSE IF Len(backupTimeFormat) = Len(aFilename) - Len(aSuffix) - Len(aPrefix)
  THEN Parse(SubSeq(aFilename, Len(aPrefix) + 1, Len(aFilename) - Len(aSuffix)))
  ELSE NoParse

(* rotate's name of the backup made at the instant t: the time is          *)
(* formatted in UTC, or with UseLocaltime on the clock of a zone that is   *)
(* off milliseconds ahead of UTC                                           *)
backupFile(fname, t, localtime, off) ==
  LET sp == splitFilename(fname)
  IN sp.prefix \o Format(IF localtime THEN Shift(t, off) ELSE t) \o sp.suffix

After(a, b) == a.day > b.day \/ (a.day = b.day /\ a.ms > b.ms)

(* the order of the bytes of the characters that names are made of *)
Code ==
  [ch \in {",", "-", ".", "T", "a", "b", "g", "l", "o", "x", "z"} \cup {Digits[i] : i \in 1..10} |->
     CASE ch = "," -> 1 [] ch = "-" -> 2 [] ch = "." -> 3
       [] IsDigit(ch) -> 4 + DigitVal(ch)
       [] ch = "T" -> 20 [] ch = "a" -> 21 [] ch = "b" -> 22 [] ch = "g" -> 23
       [] ch = "l" -> 24 [] ch = "o" -> 25 [] ch = "x" -> 26 [] ch = "z" -> 27]

RECURSIVE NameLess(_, _)
NameLess(a, b) ==
  IF a = <<>> THEN b # <<>>
  ELSE IF b = <<>> THEN FALSE
  ELSE IF Head(a) = Head(b) THEN NameLess(Tail(a), Tail(b))
  ELSE Code[Head(a)] < Code[Head(b)]

RECURSIVE ReadDir(_)
(* ioutil.ReadDir: the entries of the directory, sorted by name *)
ReadDir(entries) ==
  IF entries = {} THEN <<>>
  ELSE LET e == CHOOSE x \in entries : \A y \in entries \ {x} : NameLess(x.name, y.name)
       IN <<e>> \o ReadDir(entries \ {e})

(* one insertion of sort.Sort's insertion sort (lists under 12 entries):   *)
(* the entry moves in front of the entries that are not Less than it       *)
RECURSIVE insert(_, _)
insert(sorted, b) ==
  IF sorted # <<>> /\ After(b.timestamp, sorted[Len(sorted)].timestamp)
  THEN insert(SubSeq(sorted, 1, Len(sorted) - 1), b) \o <<sorted[Len(sorted)]>>
  ELSE sorted \o <<b>>

RECURSIVE sortBackups(_)
sortBackups(q) ==
  IF q = <<>> THEN <<>> ELSE insert(sortBackups(SubSeq(q, 1, Len(q) - 1)), q[Len(q)])

RECURSIVE matching(_, _, _)
(* lines 346-355: the entries that are no directory and decode with the    *)
(* suffix or with the suffix of a compressed backup                        *)
matching(files, prefix, suffix) ==
  IF files = <<>> THEN <<>>
  ELSE LET f == Head(files)
           plain == timeFormFilename(f.name, prefix, suffix)
           gz == timeFormFilename(f.name, prefix, suffix \o compressSuffix)
           rest == matching(Tail(files), prefix, suffix)
       IN IF f.isDir THEN rest
          ELSE IF plain.ok THEN <<[name |-> f.name, timestamp |-> plain.t]>> \o rest
          ELSE IF gz.ok THEN <<[name |-> f.name, timestamp |-> gz.t]>> \o rest
          ELSE rest

(* filterBackups on the names of the files of the directory *)
filterBackupNames(aLogFilename, entries) ==
  LET sp == splitFilename(aLogFilename)
  IN sortBackups(matching(ReadDir(entries), sp.prefix, sp.suffix))

(* the names of the logs: with an extension, without, and with the        *)
(* extension of the compressed backups                                     *)
LogNames == {<<"a", ".", "l", "o", "g">>, <<"a">>, <<"a", ".", "g", "z">>}

(* instants of rotations: the one of the tests, the last millisecond of a  *)
(* leap day, and the first of a year                                       *)
NameStamps ==
  {Date(2014, 5, 4, 14, 44, 33, 555), Date(2020, 2, 29, 23, 59, 59, 999),
   Date(2021, 1, 1, 0, 0, 0, 0)}

Subst(q, i, ch) == [q EXCEPT ![i] = ch]

(* what may stand where the timestamp stands in the name of a file: a      *)
(* timestamp, or one with a comma, a letter, a month 13, a digit too many  *)
(* or a digit too few                                                      *)
Middles ==
  LET m == Format(Date(2014, 5, 4, 14, 44, 33, 555))
  IN {Format(t) : t \in NameStamps}
     \cup {Subst(m, 15, ","), Subst(m, 9, "T"), Subst(Subst(m, 5, "1"), 6, "3"),
           m \o <<"0">>, SubSeq(m, 1, Len(m) - 1)}

(* the files a directory may hold beside the backups of the log fname:     *)
(* the log, names with another separator, another suffix or no prefix, a   *)
(* backup of another log, and a directory with the name of a backup        *)
Entries(fname) ==
  LET sp == splitFilename(fname)
      dash == SubSeq(sp.prefix, 1, Len(sp.prefix) - 1) \o <<"-">>
      stamp == Format(Date(2021, 1, 1, 0, 0, 0, 0))
  IN {[name |-> pre \o m \o suf, isDir |-> FALSE] :
        pre \in {sp.prefix, dash}, m \in Middles,
        suf \in {sp.suffix, sp.suffix \o compressSuffix, <<".", "x">>}}
     \cup {[name |-> fname, isDir |-> FALSE],
           [name |-> stamp \o sp.suffix, isDir |-> FALSE],
           [name |-> <<"b", ".">> \o stamp \o sp.suffix, isDir |-> FALSE],
           [name |-> sp.prefix \o stamp \o sp.suffix, isDir |-> TRUE]}

(* a Logger that is not used: the functions on names take no part of it *)
Unused ==
  /\ sizeLimit = 0 /\ backupsCountLimit = 0 /\ backupsDaysLimit = 0 /\ compress = FALSE
  /\ closeLimit = 0 /\ budget = 0
  /\ undeletable = {}
  /\ active = NoFile /\ backups = <<>> /\ now = 0
  /\ FreshLogger

(* no file *)
NoEntry == [name |-> <<>>, isDir |-> FALSE]

(* a log and a directory of up to MaxEntries files with distinct names *)
InitList ==
  /\ Unused
  /\ \E fname \in LogNames :
       \E pick \in [1..MaxEntries -> Entries(fname) \cup {NoEntry}] :
         LET D == {pick[i] : i \in 1..MaxEntries} \ {NoEntry}
         IN
         /\ \A x, y \in D : x.name = y.name => x = y
         /\ probe = [log |-> fname, files |-> D, listed |-> <<>>, step |-> "start"]

(* filterBackups is called *)
List ==
  /\ probe.step = "start"
  /\ probe' = [probe EXCEPT !.listed = filterBackupNames(probe.log, probe.files),
                            !.step = "listed"]
  /\ UNCHANGED <<sizeLimit, backupsCountLimit, backupsDaysLimit, compress, closeLimit, undeletable,
                 fsvars, logvars, callvars, sw, envvars, histvars>>

SpecList == InitList /\ [][List]_vars

(* the distances of the local clocks from UTC: an hour behind, five hours  *)
(* and a half ahead                                                        *)
Zones == {0 - 3600000, 19800000}

InitCodec ==
  /\ Unused
  /\ \E fname \in LogNames :
       probe = [log |-> fname, name |-> <<>>, t |-> NoTime, localtime |-> FALSE, off |-> 0,
                decoded |-> NoParse, step |-> "start"]

(* rotate builds the name of the backup of the instant t *)
Encode(t, localtime, off) ==
  /\ probe.step = "start"
  /\ probe' = [probe EXCEPT !.name = backupFile(probe.log, t, localtime, off),
                            !.t = t, !.localtime = localtime, !.off = off,
                            !.step = "encoded"]
  /\ UNCHANGED <<sizeLimit, backupsCountLimit, backupsDaysLimit, compress, closeLimit, undeletable,
                 fsvars, logvars, callvars, sw, envvars, histvars>>

(* the directory holds a file of any name *)
Found(name) ==
  /\ probe.step = "start"
  /\ probe' = [probe EXCEPT !.name = name, !.step = "found"]
  /\ UNCHANGED <<sizeLimit, backupsCountLimit, backupsDaysLimit, compress, closeLimit, undeletable,
                 fsvars, logvars, callvars, sw, envvars, histvars>>

(* timeFormFilename on the name, with the prefix and the suffix of the log *)
Decode ==
  /\ probe.step \in {"encoded", "found"}
  /\ LET sp == splitFilename(probe.log)
     IN probe' = [probe EXCEPT !.decoded = timeFormFilename(probe.name, sp.prefix, sp.suffix),
                               !.step = IF probe.step = "encoded" THEN "decoded" ELSE "tried"]
  /\ UNCHANGED <<sizeLimit, backupsCountLimit, backupsDaysLimit, compress, closeLimit, undeletable,
                 fsvars, logvars, callvars, sw, envvars, histvars>>

NextCodec ==
  \/ \E t \in NameStamps : Encode(t, FALSE, 0)
  \/ \E t \in NameStamps, off \in Zones : Encode(t, TRUE, off)
  \/ \E e \in Entries(probe.log) : Found(e.name)
  \/ Decode

SpecCodec == InitCodec /\ [][NextCodec]_vars

(* how long after the day at which a backup reaches the age limit the     *)
(* sweep looks at it: half an hour before, at that millisecond, a          *)
(* millisecond after, an hour after                                        *)
Lateness == {0 - 1800000, 0, 1, 3600000}

(* a Logger with an age limit, in UTC in any zone or with UseLocaltime in  *)
(* a zone away from UTC, that rotates at t and sweeps at now               *)
InitAge ==
  /\ sizeLimit = 0 /\ backupsCountLimit = 0 /\ backupsDaysLimit = MaxDays /\ compress = FALSE
  /\ closeLimit = 0 /\ budget = 0
  /\ undeletable = {}
  /\ active = NoFile /\ backups = <<>> /\ now = 0
  /\ FreshLogger
  /\ \E fname \in LogNames, t \in NameStamps, off \in Zones \cup {0}, localtime \in BOOLEAN,
        late \in Lateness :
       /\ localtime => off # 0
       /\ probe = [log |-> fname, t |-> t, localtime |-> localtime, off |-> off,
                   now |-> Shift(Shift(t, DayMs * backupsDaysLimit), late),
                   name |-> <<>>, marked |-> FALSE, step |-> "start"]

(* rotate names the backup, lines 183-189 *)
Named ==
  /\ probe.step = "start"
  /\ probe' = [probe EXCEPT
                 !.name = backupFile(probe.log, probe.t, probe.localtime, probe.off),
                 !.step = "named"]
  /\ UNCHANGED <<sizeLimit, backupsCountLimit, backupsDaysLimit, compress, closeLimit, undeletable,
                 fsvars, logvars, callvars, sw, envvars, histvars>>

(* the age test of collectFilesForSweep on that backup, lines 96-103: the  *)
(* timestamp is the one filterBackups decoded from the name, the cutoff is *)
(* time.Now() less the days of the limit                                   *)
Aged ==
  /\ probe.step = "named"
  /\ LET sp == splitFilename(probe.log)
         b == timeFormFilename(probe.name, sp.prefix, sp.suffix)
         cutoff == Shift(probe.now, 0 - DayMs * backupsDaysLimit)
     IN probe' = [probe EXCEPT !.marked = b.ok /\ After(cutoff, b.t),
                               !.step = "collected"]
  /\ UNCHANGED <<sizeLimit, backupsCountLimit, backupsDaysLimit, compress, closeLimit, undeletable,
                 fsvars, logvars, callvars, sw, envvars, histvars>>

NextAge == Named \/ Aged

SpecAge == InitAge /\ [][NextAge]_vars

(* ============================== the claims ============================ *)

Range(q) == {q[i] : i \in 1..Len(q)}
Min(a, b) == IF a < b THEN a ELSE b

(* the bytes of q that were in the log before the Logger was made *)
InitBytes(q) == Len(SelectSeq(q, LAMBDA b : b = 0))

(* q is whole payloads one after the other: the bytes of the k-th Write    *)
(* are together, after those of the Writes before it                       *)
WholePayloads(q) == \A i \in 1..(Len(q) - 1) : q[i] <= q[i + 1]

(* C1: with a size limit L > 0 the tracked size never exceeds L, and the   *)
(* log file is never longer than L once a Write has landed bytes in it: a  *)
(* longer log is one found at the start that no successful Write has       *)
(* touched yet.  After a Write that returned without error the file is     *)
(* open, so both its length and the tracked size are at most L.            *)
C1_SizeWithinLimit ==
  sizeLimit > 0 =>
    /\ size <= sizeLimit
    /\ (active.exists /\ Len(active.data) > sizeLimit) =>
         /\ ~file
         /\ rotations = 0
         /\ active.data = written
         /\ InitBytes(written) = Len(written)
         /\ ret.op = "Write" => ret.err # ""
    /\ (lock = 0 /\ ret.op = "Write" /\ ret.err = "") =>
         /\ file
         /\ active.exists
         /\ Len(active.data) <= sizeLimit

(* a Write has returned after the second rotation: one of the two was the  *)
(* rotation of a file this Logger had filled                               *)
C1_Witness ==
  /\ sizeLimit = MaxLimit
  /\ rotations = 2
  /\ lock = 0
  /\ ret.op = "Write" /\ ret.err = "" /\ ret.n = ret.len
  /\ Len(active.data) = ret.n

(* C2: with a size limit L > 0 a Write of more than L bytes returns        *)
(* (0, error) in one step that changes neither the directory, nor the      *)
(* Logger's handle, size, flags and lock, nor any sweep                    *)
C2_OversizedWriteRejected ==
  [][\A c \in Callers, n \in 1..MaxPayload :
       (Write(c, n) /\ sizeLimit > 0 /\ n > sizeLimit) =>
         /\ ret'.op = "Write" /\ ret'.n = 0 /\ ret'.err = "toolong"
         /\ UNCHANGED <<active, backups, file, size, lock, wg, shutdown, sweepings,
                        sw, pc, written, rotations>>]_vars

(* an oversized Write was rejected while a file was open: it stayed open *)
C2_Witness ==
  /\ sizeLimit > 0
  /\ ret.op = "Write" /\ ret.err = "toolong" /\ ret.len > sizeLimit
  /\ file /\ size > 0 /\ Len(active.data) = size

(* C3: with no size limit, or one no run reaches, and no I/O failure,      *)
(* every Write of every caller returns its full length, the log is the     *)
(* bytes found at the start followed by the whole payloads in the order    *)
(* the Writes returned, its length is the sum of the payloads' lengths,    *)
(* and there is neither a backup nor a sweep                               *)
C3_ConcurrentWrites ==
  ((sizeLimit = 0 \/ sizeLimit = HighLimit) /\ faults = 0) =>
    /\ ret.op = "Write" => (ret.err = "" /\ ret.n = ret.len)
    /\ lock = 0
    /\ active.data = written
    /\ WholePayloads(active.data)
    /\ Len(active.data) = InitBytes(written) + issued
    /\ backups = <<>>
    /\ Alive = {} /\ sweepings = 0 /\ wg = 0

(* every caller has made all its Writes, of MaxPayload bytes each, on a    *)
(* log that did not exist                                                  *)
C3_Witness ==
  /\ sizeLimit = HighLimit
  /\ \A c \in Callers : cnt[c] = WritesPerCaller
  /\ InitBytes(written) = 0
  /\ Len(active.data) = NumCallers * WritesPerCaller * MaxPayload
  /\ backupsCountLimit > 0 /\ compress

(* the content of a backup, decompressed when it is a .gz *)
PlainContent(bk, name) == IF name.gz THEN Gunzip(bk[name]) ELSE bk[name]

RECURSIVE Concat(_, _)
(* the contents of the backups named in q, one after the other *)
Concat(bk, q) ==
  IF q = <<>> THEN <<>> ELSE PlainContent(bk, Head(q)) \o Concat(bk, Tail(q))

(* the timestamps of the backups in the directory, and of all ever made *)
Stamps == {name.ts : name \in DOMAIN backups}
AllStamps == {r.ts : r \in created}

(* C4: with no count or age limit and no I/O failure, every rotation has   *)
(* its own backup, and the backups from the oldest to the newest followed  *)
(* by the log are all the bytes that were written                          *)
C4_NoByteLost ==
  (backupsCountLimit = 0 /\ backupsDaysLimit = 0 /\ faults = 0) =>
    /\ Cardinality(Stamps) = rotations
    /\ Concat(backups, Reverse(filterBackups(backups))) \o active.data = written

(* C5: at most one sweep is spawned and not finished *)
C5_AtMostOneSweep == Cardinality(Alive) <= 1

(* C6: when Close returns, no sweep is spawned and not finished *)
C6_CloseWaits == ret.op = "Close" => ret.alive = 0

(* C7: with a count limit N > 0 and no I/O failure, no Close and no two    *)
(* rotations with one name, when no Write is in progress and every sweep   *)
(* has finished, min(N, rotations) backups remain and they are the newest  *)
C7_CountLimitSettled ==
  (/\ backupsCountLimit > 0 /\ backupsDaysLimit = 0
   /\ faults = 0 /\ closes = 0 /\ ~collided
   /\ lock = 0 /\ Alive = {}) =>
    /\ Cardinality(DOMAIN backups) = Min(backupsCountLimit, rotations)
    /\ Stamps \subseteq AllStamps
    /\ \A a \in Stamps, b \in AllStamps \ Stamps : a > b

(* C8: a pass of the sweep with an age limit of D > 0 days lists for       *)
(* removal every backup with a timestamp before now - D days, first in the *)
(* list, whatever the count limit; with no count limit it lists nothing    *)
(* else, and with one it lists more only to leave exactly that many        *)
C8_AgeLimit ==
  [][\A s \in Slots :
       (SweepPass(s) /\ shutdown = 0 /\ backupsDaysLimit > 0) =>
         LET cutoff == now' - DayMs * backupsDaysLimit
             old == {b \in DOMAIN backups : b.ts < cutoff}
             rm == sw'[s].rm
             k == Cardinality(old)
         IN /\ Len(rm) >= k
            /\ {rm[i] : i \in 1..k} = old
            /\ Range(rm) \subseteq DOMAIN backups
            /\ Len(rm) = Cardinality(Range(rm))
            /\ backupsCountLimit = 0 => Len(rm) = k
            /\ Len(rm) > k => Cardinality(DOMAIN backups) - Len(rm) = backupsCountLimit]_vars

(* a pass has listed two backups, both older than the cutoff, with a count *)
(* limit above the number of backups, and leaves a backup that is not older *)
C8_Witness ==
  \E s \in Slots :
    /\ sw[s].pc = "remove"
    /\ backupsDaysLimit > 0
    /\ backupsCountLimit > Cardinality(DOMAIN backups)
    /\ Len(sw[s].rm) = 2
    /\ \A i \in 1..2 : sw[s].rm[i] \in DOMAIN backups
                         /\ sw[s].rm[i].ts < now - DayMs * backupsDaysLimit
    /\ \E b \in DOMAIN backups : b.ts >= now - DayMs * backupsDaysLimit

(* C9: with no count and no age limit, no sweep has a file to remove and   *)
(* what every rotation put in its backup is the content of a backup, plain *)
(* or compressed                                                           *)
C9_NothingDeleted ==
  (backupsCountLimit = 0 /\ backupsDaysLimit = 0) =>
    /\ \A s \in Slots : sw[s].rm = <<>>
    /\ \A r \in created :
         \E name \in DOMAIN backups :
           name.ts = r.ts /\ PlainContent(backups, name) = r.data

(* C10: a Write that finds no file open and meets no I/O failure creates   *)
(* the log when it is absent; when the log exists and takes the payload    *)
(* within the limit, appends to it and tracks the existing size plus the   *)
(* payload; and otherwise renames the log to a backup, after which a new   *)
(* log holds the payload alone                                             *)
C10_FirstWrite ==
  [][/\ \A c \in Callers, n \in 1..MaxPayload :
          (/\ Write(c, n)
           /\ ~file /\ faults' = faults
           /\ ~(sizeLimit > 0 /\ n > sizeLimit)) =>
            LET p == Payload(n, NextId)
                curSize == Len(active.data)
            IN IF ~active.exists
               THEN /\ active' = [exists |-> TRUE, data |-> p]
                    /\ file' /\ size' = n
                    /\ backups' = backups
               ELSE IF ~(sizeLimit > 0 /\ curSize + n > sizeLimit)
               THEN /\ active' = [exists |-> TRUE, data |-> active.data \o p]
                    /\ file' /\ size' = curSize + n
                    /\ backups' = backups
               ELSE /\ active' = NoFile
                    /\ backups'[backupName(now')] = active.data
                    /\ pc'[c] = "rotated" /\ wp'[c] = p
     /\ \A c \in Callers :
          (WriteRotated(c) /\ faults' = faults) =>
            /\ active' = [exists |-> TRUE, data |-> wp[c]]
            /\ file' /\ size' = Len(wp[c])
            /\ backups' = backups]_vars

(* the first Write found a log that could not take it: the old content is  *)
(* in a backup and the log is the payload                                  *)
C10_Witness ==
  /\ NextId = 2
  /\ rotations = 1
  /\ ret.op = "Write" /\ ret.err = "" /\ ret.n = ret.len
  /\ active.data = Payload(ret.n, 1)
  /\ \E name \in DOMAIN backups :
       backups[name] # <<>> /\ InitBytes(backups[name]) = Len(backups[name])

(* C11: a Compress that returns no error of a source that exists leaves    *)
(* the source absent and the destination present, not empty, and the       *)
(* compressed form of the source's bytes; a Compress of a source that does *)
(* not exist returns an error and leaves the directory as it was           *)
C11_Compress ==
  [][\A f \in DirNames, F \in SUBSET CompressFaults :
       CompressCall(f, F) =>
         /\ (f \in DOMAIN backups /\ ret'.err = "") =>
              /\ f \notin DOMAIN backups'
              /\ destFile(f) \in DOMAIN backups'
              /\ backups'[destFile(f)] # <<>>
              /\ Gunzip(backups'[destFile(f)]) = backups[f]
              /\ \A g \in DOMAIN backups' \ {destFile(f)} :
                   g \in DOMAIN backups /\ backups'[g] = backups[g]
         /\ f \notin DOMAIN backups =>
              /\ ret'.err # ""
              /\ backups' = backups]_vars

(* a Compress has returned without error and its destination holds the     *)
(* compressed bytes of the source                                          *)
C11_Witness ==
  /\ ret.op = "Compress" /\ ret.err = "" /\ ret.len = MaxLimit
  /\ faults = 0
  /\ \E g \in DOMAIN backups :
       /\ g.gz /\ Gunzip(backups[g]) = Payload(MaxLimit, 0)
       /\ [ts |-> g.ts, gz |-> FALSE] \notin DOMAIN backups

(* C12: when Compress returns, whatever failed, the source and a complete  *)
(* compressed copy of it are not both in the directory                     *)
C12_NeverTwoCopies ==
  [][\A f \in DirNames, F \in SUBSET CompressFaults :
       (CompressCall(f, F) /\ f \in DOMAIN backups) =>
         ~(/\ f \in DOMAIN backups'
           /\ destFile(f) \in DOMAIN backups'
           /\ backups'[destFile(f)] = Gzip(backups'[f]))]_vars

(* C13: a Close that finds no file open returns no error and leaves the    *)
(* log, the backups, the handle (none) and the size (0) as they were; so   *)
(* does a Close that follows a Close                                       *)
C13_CloseIdempotent ==
  [][\A c \in Callers :
       ((Close(c) \/ CloseWaited(c)) /\ ret'.op = "Close" /\ lock' = 0 /\ ~file) =>
         /\ ret'.err = ""
         /\ ~file' /\ size' = 0 /\ size = 0
         /\ UNCHANGED <<active, backups, wg, sweepings, sw>>
         /\ shutdown' = 0]_vars

(* two Closes have returned and one Write has landed: one of the Closes    *)
(* found no file open                                                      *)
C13_Witness ==
  /\ closes = 2
  /\ NextId = 2
  /\ ret.op = "Close" /\ ret.err = ""
  /\ lock = 0 /\ ~file /\ size = 0
  /\ active.exists /\ InitBytes(active.data) < Len(active.data)

(* C14: a Write whose rotation fails at the rename returns 0 bytes and the *)
(* error, leaves the log and the backups as they were, spawns no sweep and *)
(* leaves the Logger with no handle and size 0; the next Write of the same *)
(* length, if the rename succeeds, rotates the log                         *)
C14_RenameFails ==
  [][\A c \in Callers, n \in 1..MaxPayload :
       /\ (Write(c, n) /\ pc'[c] = "idle" /\ faults' = faults + 1 /\ ret'.err = "rename") =>
            /\ ret'.op = "Write" /\ ret'.n = 0 /\ ret'.len = n
            /\ UNCHANGED <<active, backups, written, rotations, wg, sweepings, sw>>
            /\ ~file' /\ size' = 0 /\ lock' = 0
       /\ (/\ ret.op = "Write" /\ ret.err = "rename" /\ n = ret.len
           /\ Write(c, n) /\ faults' = faults) =>
            /\ pc'[c] = "rotated"
            /\ active' = NoFile
            /\ backups'[backupName(now')] = active.data
            /\ rotations' = rotations + 1]_vars

(* the rename failed for a log this Logger had written to, and the Write   *)
(* that came next has rotated it                                           *)
C14_Witness ==
  /\ ret.op = "Write" /\ ret.err = "rename" /\ ret.n = 0
  /\ faults = 1 /\ rotations = 1
  /\ \E c \in Callers : pc[c] = "rotated"
  /\ \E name \in DOMAIN backups : InitBytes(backups[name]) < Len(backups[name])

(* C15: with size limit 0 no Write returns the length error, nothing is    *)
(* rotated, there is no backup and no sweep, and every Write that meets no *)
(* I/O failure makes the log longer by its length                          *)
C15_NoLimit ==
  [][sizeLimit = 0 =>
       /\ backups' = <<>> /\ rotations' = 0
       /\ Alive' = {} /\ wg' = 0 /\ sweepings' = 0
       /\ \A c \in Callers, n \in 1..MaxPayload :
            (Write(c, n) /\ faults' = faults) =>
              /\ ret'.op = "Write" /\ ret'.err = "" /\ ret'.n = n
              /\ Len(active'.data) = Len(active.data) + n
              /\ pc'[c] = "idle"]_vars

(* with no limit every caller has made all its Writes, of MaxPayload bytes *)
(* each, after a log of MaxPayload bytes                                   *)
C15_Witness ==
  /\ sizeLimit = 0
  /\ \A c \in Callers : cnt[c] = WritesPerCaller
  /\ Len(active.data) = (NumCallers * WritesPerCaller + 1) * MaxPayload
  /\ backups = <<>>

(* a name made of the prefix, a middle of the width of the format that     *)
(* parses, and the suffix suf                                              *)
IsBackupName(name, prefix, suf) ==
  /\ Len(name) = Len(prefix) + Len(backupTimeFormat) + Len(suf)
  /\ SubSeq(name, 1, Len(prefix)) = prefix
  /\ SubSeq(name, Len(name) - Len(suf) + 1, Len(name)) = suf
  /\ Parse(SubSeq(name, Len(prefix) + 1, Len(prefix) + Len(backupTimeFormat))).ok

StampOf(name, prefix) ==
  Parse(SubSeq(name, Len(prefix) + 1, Len(prefix) + Len(backupTimeFormat))).t

(* C16: filterBackups lists each file once that is no directory and has    *)
(* the name of a backup or of a compressed backup of the log, and nothing  *)
(* else, each with the timestamp of its name, no entry before a newer one  *)
C16_FilterBackups ==
  probe.step = "listed" =>
    LET sp == splitFilename(probe.log)
        lst == probe.listed
        good == {e \in probe.files :
                   /\ ~e.isDir
                   /\ \/ IsBackupName(e.name, sp.prefix, sp.suffix)
                      \/ IsBackupName(e.name, sp.prefix, sp.suffix \o compressSuffix)}
    IN /\ {lst[i].name : i \in 1..Len(lst)} = {e.name : e \in good}
       /\ Len(lst) = Cardinality(good)
       /\ \A i \in 1..Len(lst) : lst[i].timestamp = StampOf(lst[i].name, sp.prefix)
       /\ \A i, j \in 1..Len(lst) :
            i < j => ~After(lst[j].timestamp, lst[i].timestamp)
       /\ \A i \in 1..(Len(lst) - 1) :
            lst[i].timestamp # lst[i + 1].timestamp =>
              After(lst[i].timestamp, lst[i + 1].timestamp)

(* two files were listed, the newer first, against the order of the names *)
(* in the directory, which holds a third file that is no backup           *)
C16_Witness ==
  /\ probe.step = "listed"
  /\ Len(probe.listed) = 2
  /\ Cardinality(probe.files) = 3
  /\ NameLess(probe.listed[2].name, probe.listed[1].name)
  /\ After(probe.listed[1].timestamp, probe.listed[2].timestamp)

(* C17: the name built for an instant decodes to that instant, and a name  *)
(* without the prefix, without the suffix, or with a middle of another     *)
(* width than the format's does not decode                                 *)
C17_RoundTrip ==
  LET sp == splitFilename(probe.log)
      other == \/ ~HasPrefix(probe.name, sp.prefix)
               \/ ~HasSuffix(probe.name, sp.suffix)
               \/ Len(probe.name) - Len(sp.prefix) - Len(sp.suffix) # Len(backupTimeFormat)
  IN /\ probe.step = "decoded" => probe.decoded.ok /\ probe.decoded.t = probe.t
     /\ probe.step = "tried" /\ other => ~probe.decoded.ok

(* a sweep ends a pass: its last removal or compression is done and it is  *)
(* back at the head of its loop, nothing having failed                     *)
PassEnds(s) ==
  /\ sw[s].pc \in {"remove", "compress"}
  /\ sw'[s].pc = "loop"
  /\ faults' = 0

NothingToDo(r) == r.forRemove = <<>> /\ r.forCompress = <<>>

(* C18 as stated: after a pass that succeeded, without a write since, the *)
(* next collectFilesForSweep returns two empty lists, whatever the time   *)
(* it reads                                                                *)
C18_SecondPassEmpty ==
  [][\A s \in Slots :
       PassEnds(s) => \A t \in Clock' : NothingToDo(collectFilesForSweep(backups', t))]_vars

(* C18, amended: after a pass that succeeded, without a write since, a    *)
(* collectFilesForSweep that reads the time the pass read returns two      *)
(* empty lists                                                             *)
C18_SecondPassEmptySameTime ==
  [][\A s \in Slots :
       PassEnds(s) => NothingToDo(collectFilesForSweep(backups', now'))]_vars

(* a sweep is back at the head of its loop after a pass that compressed   *)
(* the rotated log under an age limit and a count limit, and a day later  *)
(* a backup would be too old                                               *)
C18_Witness ==
  \E s \in Slots :
    /\ sw[s].pc = "loop"
    /\ backupsDaysLimit > 0 /\ backupsCountLimit > 0 /\ compress
    /\ faults = 0
    /\ \E f \in DOMAIN backups : f.gz /\ backups[f] = Gzip(Payload(MaxLimit, 0))
    /\ NothingToDo(collectFilesForSweep(backups, now))
    /\ ticks < MaxTicks
    /\ collectFilesForSweep(backups, now + DayMs + 1).forRemove # <<>>

(* C19: no rotation is lost to a running sweep: with a count limit or     *)
(* compression, no age limit, no I/O failure, no Close and no two          *)
(* rotations with one name, when no Write is in progress and every sweep   *)
(* has finished, a pass over the directory would find nothing to remove    *)
(* and nothing to compress                                                 *)
C19_RotationNotLost ==
  (/\ policyActive /\ backupsDaysLimit = 0
   /\ faults = 0 /\ closes = 0 /\ ~collided
   /\ lock = 0 /\ Alive = {}) =>
    NothingToDo(collectFilesForSweep(backups, now))

(* a sweep goroutine is started in the step *)
SweepStarted == wg' > wg \/ \E s \in Slots : sw[s].pc = "none" /\ sw'[s].pc # "none"

(* C20: a sweep is started only in the step of a Write that follows the    *)
(* rename of its rotation, and only with an age limit above 0, a count     *)
(* limit above 0 or compression                                            *)
C20_SweepOnlyByRotation ==
  [][SweepStarted =>
       /\ \E c \in Callers : pc[c] = "rotated" /\ pc'[c] = "idle"
       /\ rotations >= 1
       /\ backupsDaysLimit > 0 \/ backupsCountLimit > 0 \/ compress]_vars

(* C21: whenever the lock is free, l.size is the length of the log if     *)
(* l.file is open on it and 0 if l.file is nil; and while a Write is       *)
(* between the rename of its rotation and the creation of the new log,     *)
(* l.file is nil: the one handle is closed before the next is opened       *)
C21_SizeAndHandle ==
  /\ lock = 0 =>
       IF file THEN active.exists /\ size = Len(active.data) ELSE size = 0
  /\ \A c \in Callers : pc[c] = "rotated" => ~file /\ size = 0

(* the log is open with bytes in it after a rotation and a failed          *)
(* operation, and no call is in progress                                   *)
C21_Witness ==
  /\ lock = 0 /\ file /\ size > 0 /\ size = Len(active.data)
  /\ rotations >= 1 /\ faults >= 1

(* C22: a pass of the sweep with a count limit N > 0 leaves min(N, k) of   *)
(* the backups out of its removal list, k being the number of backups not  *)
(* older than the age cutoff (all of them without an age limit), plain and *)
(* compressed alike, and no backup it lists is newer than one it leaves    *)
C22_CountLimit ==
  [][\A s \in Slots :
       (SweepPass(s) /\ shutdown = 0 /\ backupsCountLimit > 0) =>
         LET cutoff == now' - DayMs * backupsDaysLimit
             old == IF backupsDaysLimit > 0
                    THEN {b \in DOMAIN backups : b.ts < cutoff} ELSE {}
             k == Cardinality(DOMAIN backups \ old)
             rm == Range(sw'[s].rm)
             kept == DOMAIN backups \ rm
         IN /\ rm \subseteq DOMAIN backups
            /\ Cardinality(kept) = Min(backupsCountLimit, k)
            /\ \A r \in rm, q \in kept : r.ts <= q.ts]_vars

(* a pass under a count limit alone has listed a plain and a compressed    *)
(* backup and leaves as many backups as the limit, of both kinds           *)
C22_Witness ==
  \E s \in Slots :
    /\ sw[s].pc = "remove"
    /\ backupsDaysLimit = 0 /\ backupsCountLimit > 1
    /\ Range(sw[s].rm) \subseteq DOMAIN backups
    /\ \E a, b \in Range(sw[s].rm) : a.gz /\ ~b.gz
    /\ \E a, b \in DOMAIN backups \ Range(sw[s].rm) : a.gz /\ ~b.gz
    /\ Cardinality(DOMAIN backups \ Range(sw[s].rm)) = backupsCountLimit

(* C23: with compression, the compression list of a pass holds, newest    *)
(* first and each once, the plain backups the pass does not list for       *)
(* removal; no backup is in both lists; without compression the            *)
(* compression list is empty                                               *)
C23_CompressionList ==
  [][\A s \in Slots :
       (SweepPass(s) /\ shutdown = 0) =>
         LET rm == Range(sw'[s].rm)
             cz == sw'[s].cz
         IN /\ rm \cap Range(cz) = {}
            /\ ~compress => cz = <<>>
            /\ compress =>
                 /\ Range(cz) = {b \in DOMAIN backups \ rm : ~b.gz}
                 /\ \A i, j \in 1..Len(cz) : i < j => cz[i].ts > cz[j].ts]_vars

(* a pass with compression has listed a backup for removal and two for     *)
(* compression, and leaves a compressed backup alone                        *)
C23_Witness ==
  \E s \in Slots :
    /\ sw[s].pc = "remove"
    /\ compress
    /\ Len(sw[s].rm) = 1 /\ Len(sw[s].cz) = 2
    /\ Range(sw[s].rm) \subseteq DOMAIN backups
    /\ \E b \in DOMAIN backups \ Range(sw[s].rm) : b.gz

(* C24: in UTC and in local time alike, a pass with an age limit marks a  *)
(* backup for removal exactly when the instant of its rotation is more     *)
(* than the days of the limit before the instant of the pass               *)
C24_AgeCutoff ==
  probe.step = "collected" =>
    (probe.marked <=> After(Shift(probe.now, 0 - DayMs * backupsDaysLimit), probe.t))

(* C25: a deletion of the sweep that fails passes one error for that file *)
(* to errHandler and goes on with the pass: the rest of the removal list   *)
(* is next, then the compression list of the pass, unchanged               *)
C25_FailedDeletion ==
  [][\A s \in Slots :
       (/\ sw[s].pc = "remove" /\ sw'[s] # sw[s]
        /\ Head(sw[s].rm) \in DOMAIN backups'
        /\ Len(handled) < MaxHandled) =>
         /\ handled' = Append(handled, Failed("remove", Head(sw[s].rm)))
         /\ sw'[s].rm = Tail(sw[s].rm)
         /\ sw'[s].cz = sw[s].cz
         /\ sw'[s].pc = IF sw'[s].rm # <<>> THEN "remove"
                        ELSE IF sw'[s].cz # <<>> THEN "compress" ELSE "loop"]_vars

(* a pass is at its next deletion after one that failed and was reported   *)
(* once, with its compression list still to do                             *)
C25_Witness ==
  \E s \in Slots :
    /\ sw[s].pc = "remove"
    /\ Len(handled) = 1 /\ handled[1].op = "remove"
    /\ handled[1].name \in DOMAIN backups
    /\ handled[1].name \notin Range(sw[s].rm)
    /\ sw[s].cz # <<>>

(* C26: a compression of the sweep that fails passes one error to         *)
(* errHandler and ends the work of the sweep: nothing is left to compress  *)
(* and no pass follows; the sweep then clears sweepings as it finishes;    *)
(* and a rotation made after the failure leaves a sweep that is started or *)
(* at work when its Write returns                                          *)
C26_FailedCompression ==
  [][/\ \A s \in Slots :
          (sw[s].pc = "compress" /\ sw'[s] # sw[s] /\ handled' # handled) =>
            /\ handled' = Append(handled, Failed("compress", Head(sw[s].cz)))
            /\ sw'[s] = [pc |-> "exit", rm |-> <<>>, cz |-> <<>>]
     /\ \A s \in Slots :
          (sw[s].pc = "exit" /\ sw'[s] # sw[s]) => sw'[s].pc = "none" /\ sweepings' = 0
     /\ \A c \in Callers :
          (/\ pc[c] = "rotated" /\ pc'[c] = "idle" /\ closes = 0 /\ ~collided
           /\ \E i \in 1..Len(handled) :
                handled[i].op = "compress" /\ handled[i].at < rotations) =>
            \E s \in Slots : sw'[s].pc \in {"spawned", "loop", "remove", "compress"}]_vars

(* C27: every sweep that was started finishes, with no Close, also when   *)
(* the deletion of a file fails every time and no compression fails        *)
C27_SweepFinishes ==
  \A s \in Slots : (sw[s].pc # "none") ~> (sw[s].pc = "none")

(* C28: once Close has set shutdown, a running sweep starts no             *)
(* compression and no pass: each of its steps brings it nearer to its end, *)
(* a turn of the compress loop leaves the directory alone and gives up the *)
(* list, the head of the loop lists nothing and goes to the end; Close     *)
(* returns when no sweep is left, with shutdown cleared, and shutdown is   *)
(* never set while the lock is free                                        *)
C28_GracefulDrain ==
  [][/\ \A s \in Slots :
          (shutdown = 1 /\ sw'[s] # sw[s]) =>
            /\ drainSteps(sw'[s]) < drainSteps(sw[s])
            /\ sw[s].pc = "compress" =>
                 /\ backups' = backups
                 /\ handled' = handled
                 /\ sw'[s] = [pc |-> "loop", rm |-> <<>>, cz |-> <<>>]
            /\ sw[s].pc = "loop" =>
                 /\ handled' = handled
                 /\ sw'[s] = [pc |-> "exit", rm |-> <<>>, cz |-> <<>>]
     /\ \A c \in Callers :
          (pc[c] = "wait" /\ pc'[c] # "wait") =>
            /\ \A s \in Slots : sw[s].pc = "none"
            /\ shutdown' = 0
            /\ lock' = 0
            /\ pc'[c] = "idle"
     /\ lock' = 0 => shutdown' = 0]_vars

(* a Close waits and the sweep is at its end, no compression having       *)
(* failed, while a backup is left to compress                              *)
C28_Witness ==
  /\ shutdown = 1
  /\ \E c \in Callers : pc[c] = "wait"
  /\ \E s \in Slots : sw[s].pc = "exit"
  /\ handled = <<>>
  /\ collectFilesForSweep(backups, now).forCompress # <<>>

(* C29: a Compress of a source that exists, by what failed: when the       *)
(* creation of the destination fails no file is removed; when the copy or  *)
(* the end of the compressed stream fails the destination is absent and    *)
(* the source is as it was; the source is removed only when the open, the  *)
(* creation, the copy and the end of the stream all succeeded; and Close   *)
(* is called on every handle that was opened                               *)
C29_CleanupByOutcome ==
  [][\A f \in DirNames, F \in SUBSET CompressFaults :
       (CompressCall(f, F) /\ f \in DOMAIN backups /\ "open" \notin F) =>
         /\ "create" \in F => backups' = backups
         /\ ("create" \notin F /\ F \cap {"copy", "gzclose"} # {}) =>
              /\ destFile(f) \notin DOMAIN backups'
              /\ f \in DOMAIN backups' /\ backups'[f] = backups[f]
         /\ f \notin DOMAIN backups' => F \cap {"create", "copy", "gzclose"} = {}
         /\ Compress(backups, f, F).closed =
              IF "create" \in F THEN {"src"} ELSE {"src", "dst"}]_vars

(* C30: the error of a Compress holds every failure of the call: the       *)
(* failure of the open, of the creation, of the copy or of the end of the  *)
(* stream is in it whatever failed after it, and it is nil only when no    *)
(* step failed                                                             *)
C30_ErrorsAggregated ==
  [][\A f \in DirNames, F \in SUBSET CompressFaults :
       CompressCall(f, F) =>
         LET errs == Compress(backups, f, F).errors
             returned == {errs[i] : i \in DOMAIN errs}
             opened == openSource(backups, f, F)
         IN /\ ~opened => "open" \in returned
            /\ (opened /\ "create" \in F) => "create" \in returned
            /\ (opened /\ "create" \notin F /\ "copy" \in F) => "copy" \in returned
            /\ (opened /\ F \cap {"create", "copy"} = {} /\ "gzclose" \in F) =>
                 "gzclose" \in returned
            /\ errs = <<>> => (opened /\ F = {})
            /\ ret'.n = Len(errs)]_vars

(* C31: whatever the directory holds, the log itself among it, no file    *)
(* that filterBackups lists, from which the removal list and the           *)
(* compression list are taken, has the name of the log, and the            *)
(* destination of the compression of none of them has it                   *)
C31_ActiveFileUntouched ==
  probe.step = "listed" =>
    \A i \in 1..Len(probe.listed) :
      /\ probe.listed[i].name # probe.log
      /\ probe.listed[i].name \o compressSuffix # probe.log
      /\ \E e \in probe.files : e.name = probe.listed[i].name /\ ~e.isDir

(* the directory holds the log and backups of it, and the backups were     *)
(* listed                                                                  *)
C31_Witness ==
  /\ probe.step = "listed"
  /\ \E e \in probe.files : e.name = probe.log
  /\ Len(probe.listed) = MaxEntries - 1

(* C32: a Write never waits for the work of a sweep: the steps of a sweep  *)
(* are taken by no holder of the lock, and no caller holds the lock, which *)
(* every Write needs, while it waits for a sweep to return                 *)
C32_WriteNeverWaits ==
  /\ lock \in Callers \cup {0}
  /\ \A c \in Callers :
       lock = c => ~(pc[c] = "wait" /\ \E s \in Slots : sw[s].pc # "none")

(* C33: a pass whose reading of the directory fails has nothing to remove *)
(* and nothing to compress; the sweep passes the error to errHandler once, *)
(* changes no file and goes to its end, where it clears sweepings without  *)
(* another call of errHandler; and no step of a sweep changes what Write   *)
(* or Close return                                                         *)
C33_ListingFails ==
  [][\A s \in Slots :
       /\ (SweepPass(s) /\ faults' # faults) =>
            /\ sw'[s] = [pc |-> "exit", rm |-> <<>>, cz |-> <<>>]
            /\ Len(handled) < MaxHandled =>
                 handled' = Append(handled, Failed("readdir", NoName))
            /\ backups' = backups /\ active' = active
       /\ (sw[s].pc = "exit" /\ sw'[s] # sw[s]) =>
            /\ sw'[s].pc = "none" /\ sweepings' = 0
            /\ handled' = handled
            /\ backups' = backups /\ active' = active
       /\ (sw[s].pc # "none" /\ sw'[s] # sw[s]) => ret' = ret]_vars

(* the reading of the directory has failed and the sweep has returned:     *)
(* errHandler has that error and no other, the backup is still there       *)
C33_Witness ==
  /\ handled = <<Failed("readdir", NoName)>>
  /\ \A s \in Slots : sw[s].pc = "none"
  /\ sweepings = 0
  /\ wg = 0
  /\ rotations = 1
  /\ backups # <<>>

====
